---- MODULE Spec2Model ----
(***************************************************************************)
(* A model of package stats (stats/stats.go): the MetricType and ValueType *)
(* enumerations and their JSON codecs, the SampleTags tag set, and the     *)
(* submetric name parser NewSubmetric.                                     *)
(*                                                                         *)
(* Go strings and byte slices are sequences of one-character strings,      *)
(* except the enumeration literals, which are compared whole and are kept  *)
(* as TLA+ strings.  A nil pointer and a nil map are 0; a nil error is the   *)
(* empty string.  Each part of the package has a specification of its own, *)
(* which leaves the variables of the other parts as they start.            *)
(***************************************************************************)
EXTENDS Integers, Sequences, FiniteSets, TLC

VARIABLES
    mt,        \* a MetricType variable (an int)
    vt,        \* a ValueType variable (an int)
    wire,      \* the last MarshalJSON call of either type
    dec,       \* the last UnmarshalJSON call of either type
    name,      \* the string handed to NewSubmetric
    sub,       \* what NewSubmetric returned for it
    heap,      \* heap[i]: the contents of Go map i (a map value is a reference)
    owned,     \* the maps the caller holds in variables of its own
    objs,      \* objs[p]: the SampleTags struct that pointer p points to
    origin,    \* origin[p]: the map objs[p] was built from, and what it held then
    last,      \* the last SampleTags method call and what it returned
    panicked,  \* a call has panicked
    procs      \* procs[g]: goroutine g's place in MarshalJSON, its locals and results

vars == <<mt, vt, wire, dec, name, sub, heap, owned, objs, origin, last, panicked,
          procs>>

enumVars == <<mt, vt, wire, dec>>
subVars == <<name, sub>>
tagVars == <<heap, owned, objs, origin, last, panicked>>

----------------------------------------------------------------------------
(* Type enumerations, stats.go lines 34-162 *)

counterString == "\"counter\""
gaugeString == "\"gauge\""
trendString == "\"trend\""
rateString == "\"rate\""

defaultString == "\"default\""
timeString == "\"time\""
dataString == "\"data\""

Counter == 0
Gauge == 1
Trend == 2
Rate == 3

Default == 0
Time == 1
Data == 2

NoError == ""
ErrInvalidMetricType == "Invalid metric type"
ErrInvalidValueType == "Invalid value type"

\* The largest int a MetricType or ValueType variable is given here: the
\* values of the enumerations and at least one int outside them.
MaxTypeValue == 4

TypeValues == 0..MaxTypeValue

\* A mutant of MetricTypeMarshalJSON: Trend is written with Rate's literal.
MetricTypeMarshalJSONSwapped(t) ==
    CASE t = Counter -> [bytes |-> counterString, err |-> NoError]
      [] t = Gauge -> [bytes |-> gaugeString, err |-> NoError]
      [] t = Trend -> [bytes |-> rateString, err |-> NoError]
      [] t = Rate -> [bytes |-> rateString, err |-> NoError]
      [] OTHER -> [bytes |-> "", err |-> ErrInvalidMetricType]

\* func (t MetricType) MarshalJSON() ([]byte, error)
MetricTypeMarshalJSON(t) ==
    CASE t = Counter -> [bytes |-> counterString, err |-> NoError]
      [] t = Gauge -> [bytes |-> gaugeString, err |-> NoError]
      [] t = Trend -> [bytes |-> trendString, err |-> NoError]
      [] t = Rate -> [bytes |-> rateString, err |-> NoError]
      [] OTHER -> [bytes |-> "", err |-> ErrInvalidMetricType]

\* func (t *MetricType) UnmarshalJSON(data []byte) error: t is *t before the
\* call, the result holds *t after it and the error.
MetricTypeUnmarshalJSON(t, data) ==
    CASE data = counterString -> [t |-> Counter, err |-> NoError]
      [] data = gaugeString -> [t |-> Gauge, err |-> NoError]
      [] data = trendString -> [t |-> Trend, err |-> NoError]
      [] data = rateString -> [t |-> Rate, err |-> NoError]
      [] OTHER -> [t |-> t, err |-> ErrInvalidMetricType]

\* func (t ValueType) MarshalJSON() ([]byte, error)
ValueTypeMarshalJSON(t) ==
    CASE t = Default -> [bytes |-> defaultString, err |-> NoError]
      [] t = Time -> [bytes |-> timeString, err |-> NoError]
      [] t = Data -> [bytes |-> dataString, err |-> NoError]
      [] OTHER -> [bytes |-> "", err |-> ErrInvalidValueType]

\* A mutant of ValueTypeUnmarshalJSON: the default case returns the other
\* type's error.
ValueTypeUnmarshalJSONWrongError(t, data) ==
    CASE data = defaultString -> [t |-> Default, err |-> NoError]
      [] data = timeString -> [t |-> Time, err |-> NoError]
      [] data = dataString -> [t |-> Data, err |-> NoError]
      [] OTHER -> [t |-> t, err |-> ErrInvalidMetricType]

\* func (t *ValueType) UnmarshalJSON(data []byte) error
ValueTypeUnmarshalJSON(t, data) ==
    CASE data = defaultString -> [t |-> Default, err |-> NoError]
      [] data = timeString -> [t |-> Time, err |-> NoError]
      [] data = dataString -> [t |-> Data, err |-> NoError]
      [] OTHER -> [t |-> t, err |-> ErrInvalidValueType]

----------------------------------------------------------------------------
(* Submetric parsing, stats.go lines 328-362 *)

\* The characters of the names handed to NewSubmetric: a letter, the
\* separators of the filter syntax, the two quoting characters and a space.
Chars == {"a", "{", "}", ",", ":", "\"", "'", " "}

\* The longest name handed to NewSubmetric.
MaxNameLen == 4

Names == UNION {[1..n -> Chars] : n \in 0..MaxNameLen}

\* unicode.IsSpace on the Latin-1 range, as strings.TrimSpace uses it.
IsSpace(c) == c \in {" ", "\t", "\n", "\r"}

\* The cutset of the two strings.Trim calls.
QuoteChars == {"\"", "'"}

Tail2(s, i) == SubSeq(s, i, Len(s))

\* strings.TrimSuffix(s, suffix) for a one-character suffix.
TrimSuffix(s, c) ==
    IF Len(s) > 0 /\ s[Len(s)] = c THEN SubSeq(s, 1, Len(s) - 1) ELSE s

\* The index of the first c in s, 0 when there is none (strings.Index).
Index(s, c) ==
    IF \E i \in 1..Len(s) : s[i] = c
    THEN CHOOSE i \in 1..Len(s) : s[i] = c /\ \A j \in 1..(i - 1) : s[j] # c
    ELSE 0

\* strings.SplitN(s, sep, 2) for a one-character separator.
SplitN2(s, c) ==
    LET i == Index(s, c)
    IN IF i = 0 THEN <<s>> ELSE <<SubSeq(s, 1, i - 1), Tail2(s, i + 1)>>

\* strings.Split(s, sep) for a one-character separator.
RECURSIVE Split(_, _)
Split(s, c) ==
    LET i == Index(s, c)
    IN IF i = 0 THEN <<s>> ELSE <<SubSeq(s, 1, i - 1)>> \o Split(Tail2(s, i + 1), c)

\* strings.TrimLeft / TrimRight / Trim with a cutset.
RECURSIVE TrimLeft(_, _)
TrimLeft(s, cutset) ==
    IF Len(s) > 0 /\ s[1] \in cutset THEN TrimLeft(Tail(s), cutset) ELSE s

RECURSIVE TrimRight(_, _)
TrimRight(s, cutset) ==
    IF Len(s) > 0 /\ s[Len(s)] \in cutset
    THEN TrimRight(SubSeq(s, 1, Len(s) - 1), cutset)
    ELSE s

Trim(s, cutset) == TrimRight(TrimLeft(s, cutset), cutset)

\* strings.TrimSpace
TrimSpace(s) == Trim(s, {c \in Chars \cup {"\t", "\n", "\r"} : IsSpace(c)})

\* tags[key] = value on a Go map held as a function.
MapSet(m, k, v) == [x \in DOMAIN m \cup {k} |-> IF x = k THEN v ELSE m[x]]

EmptyMap == [x \in {} |-> <<>>]

\* The loop of NewSubmetric over the clauses kvs[i..], tags being the map
\* built so far (lines 346-360).
RECURSIVE FilterTags(_, _, _)
FilterTags(kvs, i, tags) ==
    IF i > Len(kvs) THEN tags
    ELSE LET kv == kvs[i]
             parts == SplitN2(kv, ":")
             key == TrimSpace(Trim(parts[1], QuoteChars))
         IN IF kv = <<>> THEN FilterTags(kvs, i + 1, tags)
            ELSE IF Len(parts) # 2 THEN FilterTags(kvs, i + 1, MapSet(tags, key, <<>>))
            ELSE FilterTags(kvs, i + 1,
                            MapSet(tags, key, TrimSpace(Trim(parts[2], QuoteChars))))

\* A *SampleTags field of a Submetric: nil, or a tag set holding tags.
NilTags == [nil |-> TRUE, tags |-> EmptyMap]

\* A mutant of NewSubmetric: the name is split without stripping its
\* trailing "}".
NewSubmetricNoTrimSuffix(nm) ==
    LET parts == SplitN2(nm, "{")
    IN IF Len(parts) = 1
       THEN [parentName |-> parts[1],
             sm |-> [Name |-> nm, Parent |-> <<>>, Suffix |-> <<>>, Tags |-> NilTags]]
       ELSE [parentName |-> parts[1],
             sm |-> [Name |-> nm, Parent |-> parts[1], Suffix |-> parts[2],
                     Tags |-> [nil |-> FALSE,
                               tags |-> FilterTags(Split(parts[2], ","), 1, EmptyMap)]]]

\* func NewSubmetric(name string) (parentName string, sm *Submetric)
NewSubmetric(nm) ==
    LET parts == SplitN2(TrimSuffix(nm, "}"), "{")
    IN IF Len(parts) = 1
       THEN [parentName |-> parts[1],
             sm |-> [Name |-> nm, Parent |-> <<>>, Suffix |-> <<>>, Tags |-> NilTags]]
       ELSE [parentName |-> parts[1],
             sm |-> [Name |-> nm, Parent |-> parts[1], Suffix |-> parts[2],
                     Tags |-> [nil |-> FALSE,
                               tags |-> FilterTags(Split(parts[2], ","), 1, EmptyMap)]]]

----------------------------------------------------------------------------
(* SampleTags, stats.go lines 164-257 *)

\* The tag keys and values of the model; the empty string is a value, the
\* one a lookup of a missing key returns too.
Keys == {<<"a">>, <<"b">>}
Vals == {<<>>, <<"x">>}

\* The contents a map[string]string of the model can have.
AllMaps == UNION {[d -> Vals] : d \in SUBSET Keys}

\* The most Go maps and the most SampleTags structs allocated in a run.
MaxMaps == 3
MaxObjs == 2

\* A nil pointer, and a nil map.
Nil == 0

\* A nil []byte, and the slice over the n first bytes of buffer b.  The
\* buffers of this package are never written after they are filled, so a
\* slice holds its buffer's contents instead of an address.
NilSlice == [nil |-> TRUE, buf |-> <<>>, len |-> 0]
Slice(b, n) == [nil |-> FALSE, buf |-> b, len |-> n]
Bytes(sl) == IF sl.nil THEN <<>> ELSE SubSeq(sl.buf, 1, sl.len)

\* The contents of the map a map value m refers to; a nil map reads as an
\* empty one.
MapOf(h, m) == IF m = Nil THEN EmptyMap ELSE h[m]

\* val, ok := m[key]
MapGet(h, m, key) ==
    IF key \in DOMAIN MapOf(h, m)
    THEN [val |-> MapOf(h, m)[key], ok |-> TRUE]
    ELSE [val |-> <<>>, ok |-> FALSE]

\* delete(m, key)
MapDelete(c, key) == [x \in DOMAIN c \ {key} |-> c[x]]

\* func (st *SampleTags) Get(key string) (string, bool)
Get(h, o, st, key) ==
    IF st = Nil THEN [val |-> <<>>, ok |-> FALSE] ELSE MapGet(h, o[st].tags, key)

\* A mutant of IsEqual: an unset tag set is compared as an empty one.
IsEqualNilAsEmpty(h, o, st, other) ==
    LET a == IF st = Nil THEN EmptyMap ELSE MapOf(h, o[st].tags)
        b == IF other = Nil THEN EmptyMap ELSE MapOf(h, o[other].tags)
    IN IF st = other THEN TRUE
       ELSE IF Cardinality(DOMAIN a) # Cardinality(DOMAIN b) THEN FALSE
       ELSE \A k \in DOMAIN a : k \in DOMAIN b /\ a[k] = b[k]

\* A mutant of IsEqual: the two cardinalities are not compared.
IsEqualNoLen(h, o, st, other) ==
    IF st = other THEN TRUE
    ELSE IF st = Nil \/ other = Nil THEN FALSE
    ELSE \A k \in DOMAIN MapOf(h, o[st].tags) :
            LET r == MapGet(h, o[other].tags, k)
            IN r.ok /\ MapOf(h, o[st].tags)[k] = r.val

\* func (st *SampleTags) IsEqual(other *SampleTags) bool
IsEqual(h, o, st, other) ==
    IF st = other THEN TRUE
    ELSE IF \/ st = Nil
            \/ other = Nil
            \/ Cardinality(DOMAIN MapOf(h, o[st].tags))
                  # Cardinality(DOMAIN MapOf(h, o[other].tags))
    THEN FALSE
    ELSE \A k \in DOMAIN MapOf(h, o[st].tags) :
            LET r == MapGet(h, o[other].tags, k)
            IN r.ok /\ MapOf(h, o[st].tags)[k] = r.val

\* The byte order of the characters of Keys and Vals (their ASCII codes).
CharCode(c) ==
    CASE c = "a" -> 97 [] c = "b" -> 98 [] c = "x" -> 120 [] OTHER -> 0

\* s < t for Go strings: bytewise, a proper prefix first.
RECURSIVE StrLess(_, _)
StrLess(s, t) ==
    IF t = <<>> THEN FALSE
    ELSE IF s = <<>> THEN TRUE
    ELSE IF s[1] # t[1] THEN CharCode(s[1]) < CharCode(t[1])
    ELSE StrLess(Tail(s), Tail(t))

\* A JSON string literal; no character of Keys and Vals needs escaping.
JsonString(s) == <<"\"">> \o s \o <<"\"">>

\* The members of a JSON object for the keys ks of c, in sorted key order.
RECURSIVE JsonMembers(_, _)
JsonMembers(c, ks) ==
    IF ks = {} THEN <<>>
    ELSE LET k == CHOOSE x \in ks : \A y \in ks \ {x} : StrLess(x, y)
             rest == JsonMembers(c, ks \ {k})
         IN JsonString(k) \o <<":">> \o JsonString(c[k])
               \o (IF rest = <<>> THEN <<>> ELSE <<",">> \o rest)

\* json.Marshal of a map[string]string: null for a nil map, else an object
\* with its keys sorted.
JsonMarshal(h, m) ==
    IF m = Nil THEN <<"n", "u", "l", "l">>
    ELSE <<"{">> \o JsonMembers(h[m], DOMAIN h[m]) \o <<"}">>

\* The scanner of json.Unmarshal on the texts of the model: null, or an
\* object whose members are string:string with no white space.  The result
\* is [ok, null, pairs], pairs being the members in the order of the text.
RECURSIVE JsonScanMembers(_, _, _)
JsonScanMembers(s, i, acc) ==
    LET bad == [ok |-> FALSE, null |-> FALSE, pairs |-> <<>>]
        close(from) ==
            IF \E j \in from..Len(s) : s[j] = "\""
            THEN CHOOSE j \in from..Len(s) :
                    s[j] = "\"" /\ \A x \in from..(j - 1) : s[x] # "\""
            ELSE 0
        k2 == IF i <= Len(s) /\ s[i] = "\"" THEN close(i + 1) ELSE 0
        v1 == k2 + 2
        v2 == IF k2 # 0 /\ v1 <= Len(s) /\ s[k2 + 1] = ":" /\ s[v1] = "\""
              THEN close(v1 + 1) ELSE 0
        pair == <<SubSeq(s, i + 1, k2 - 1), SubSeq(s, v1 + 1, v2 - 1)>>
    IN IF k2 = 0 \/ v2 = 0 \/ v2 + 1 > Len(s) THEN bad
       ELSE IF s[v2 + 1] = "}" /\ v2 + 1 = Len(s)
       THEN [ok |-> TRUE, null |-> FALSE, pairs |-> Append(acc, pair)]
       ELSE IF s[v2 + 1] = "," THEN JsonScanMembers(s, v2 + 2, Append(acc, pair))
       ELSE bad

JsonScan(s) ==
    IF s = <<"n", "u", "l", "l">> THEN [ok |-> TRUE, null |-> TRUE, pairs |-> <<>>]
    ELSE IF s = <<"{", "}">> THEN [ok |-> TRUE, null |-> FALSE, pairs |-> <<>>]
    ELSE IF Len(s) > 0 /\ s[1] = "{" THEN JsonScanMembers(s, 2, <<>>)
    ELSE [ok |-> FALSE, null |-> FALSE, pairs |-> <<>>]

\* m[k] = v for each pair in turn, on the contents c.
RECURSIVE StorePairs(_, _, _)
StorePairs(c, pairs, i) ==
    IF i > Len(pairs) THEN c
    ELSE StorePairs(MapSet(c, pairs[i][1], pairs[i][2]), pairs, i + 1)

ErrSyntax == "json: syntax error"

\* json.Unmarshal(data, &m) for m a map[string]string: a text that does not
\* scan changes nothing; null sets m to nil; an object is stored into the
\* map m refers to, a new one when m is nil, and the entries the map already
\* holds are kept.  The result is the heap, m and the error afterwards.
JsonUnmarshal(h, m, data) ==
    LET sc == JsonScan(data)
    IN IF ~sc.ok THEN [heap |-> h, m |-> m, err |-> ErrSyntax]
       ELSE IF sc.null THEN [heap |-> h, m |-> Nil, err |-> NoError]
       ELSE IF m = Nil
       THEN [heap |-> Append(h, StorePairs(EmptyMap, sc.pairs, 1)),
             m |-> Len(h) + 1, err |-> NoError]
       ELSE [heap |-> [h EXCEPT ![m] = StorePairs(h[m], sc.pairs, 1)],
             m |-> m, err |-> NoError]

\* func (st *SampleTags) MarshalJSON() ([]byte, error), run without
\* interruption: the result is the struct afterwards and the slice returned.
\* json.Marshal of a map[string]string returns no error.
MarshalJSON(h, s) ==
    IF ~s.json.nil THEN [st |-> s, ret |-> s.json]
    ELSE LET res == JsonMarshal(h, s.tags)
         IN [st |-> [s EXCEPT !.json = Slice(res, Len(res))],
             ret |-> Slice(res, Len(res))]

\* A mutant of NewSampleTags: the tag set keeps the caller's map.
NewSampleTagsNoCopy(h, data) ==
    [heap |-> h, st |-> [tags |-> data, json |-> NilSlice]]

\* func NewSampleTags(data map[string]string) *SampleTags: the heap with the
\* new map, and the new struct.
NewSampleTags(h, data) ==
    [heap |-> Append(h, MapOf(h, data)),
     st |-> [tags |-> Len(h) + 1, json |-> NilSlice]]

\* func IntoSampleTags(data *map[string]string) *SampleTags: the new struct;
\* the caller's variable is set to nil.
IntoSampleTags(data) == [tags |-> data, json |-> NilSlice]

\* func (st *SampleTags) CloneTags() map[string]string: the heap with the
\* new map, which is the result.
CloneTags(h, o, st) ==
    Append(h, IF st = Nil THEN EmptyMap ELSE MapOf(h, o[st].tags))

\* The JSON texts handed to UnmarshalJSON.
JsonInputs ==
    { <<"n", "u", "l", "l">>,
      <<"{", "}">>,
      <<"{", "\"", "a", "\"", ":", "\"", "x", "\"", "}">>,
      <<"{", "\"", "b", "\"", ":", "\"", "\"", "}">>,
      <<"{", "\"", "b", "\"", ":", "\"", "x", "\"", ",",
             "\"", "a", "\"", ":", "\"", "\"", "}">>,
      <<"{", "\"", "a", "\"", ":", "\"", "x", "\"", ",",
             "\"", "a", "\"", ":", "\"", "\"", "}">>,
      <<"{", "\"", "a", "\"", ":">> }

----------------------------------------------------------------------------
(* The states of the parts of the model a specification leaves alone *)

NoCall == [kind |-> "none", val |-> 0, bytes |-> "", err |-> NoError]

EnumIdle ==
    /\ mt = Counter
    /\ vt = Default
    /\ wire = NoCall
    /\ dec = NoCall

NoSubmetric ==
    [called |-> FALSE, parentName |-> <<>>,
     sm |-> [Name |-> <<>>, Parent |-> <<>>, Suffix |-> <<>>, Tags |-> NilTags]]

SubIdle ==
    /\ name = <<>>
    /\ sub = NoSubmetric

NoCallYet ==
    [op |-> "none", st |-> Nil, data |-> <<>>, err |-> NoError,
     ret |-> NilSlice, m |-> Nil, populated |-> FALSE]

TagsIdle ==
    /\ heap = <<>>
    /\ owned = {}
    /\ objs = <<>>
    /\ origin = <<>>
    /\ last = NoCallYet
    /\ panicked = FALSE

\* The goroutines that call MarshalJSON on one tag set, and the calls each
\* makes.
NumProcs == 2
MaxCalls == 2

Procs == 1..NumProcs

\* A goroutine outside MarshalJSON that has made no call.
IdleProc ==
    [pc |-> "idle", ptr |-> NilSlice, len |-> 0, gotPtr |-> FALSE, gotLen |-> FALSE,
     res |-> NilSlice, putPtr |-> FALSE, putLen |-> FALSE,
     returned |-> FALSE, ret |-> NilSlice, calls |-> 0, cached |-> FALSE]

RaceIdle == procs = [g \in Procs |-> IdleProc]

----------------------------------------------------------------------------
(* The specification of the type enumerations: two variables, one of each  *)
(* type, set, encoded and decoded in any order.                             *)

\* The literals handed to the decoders: the seven literals of the two
\* enumerations and literals outside them (unquoted, differently cased,
\* empty, null).
Literals ==
    { "\"counter\"", "\"gauge\"", "\"trend\"", "\"rate\"",
      "\"default\"", "\"time\"", "\"data\"",
      "counter", "\"Rate\"", "", "null" }

InitEnum ==
    /\ EnumIdle
    /\ SubIdle
    /\ TagsIdle
    /\ RaceIdle

\* mt = MetricType(n), vt = ValueType(n): any int converts.
SetMetricType(n) ==
    /\ mt' = n
    /\ UNCHANGED <<vt, wire, dec, subVars, tagVars, procs>>

SetValueType(n) ==
    /\ vt' = n
    /\ UNCHANGED <<mt, wire, dec, subVars, tagVars, procs>>

CallMetricTypeMarshalJSON ==
    LET r == MetricTypeMarshalJSON(mt)
    IN /\ wire' = [kind |-> "MetricType", val |-> mt, bytes |-> r.bytes, err |-> r.err]
       /\ UNCHANGED <<mt, vt, dec, subVars, tagVars, procs>>

CallValueTypeMarshalJSON ==
    LET r == ValueTypeMarshalJSON(vt)
    IN /\ wire' = [kind |-> "ValueType", val |-> vt, bytes |-> r.bytes, err |-> r.err]
       /\ UNCHANGED <<mt, vt, dec, subVars, tagVars, procs>>

CallMetricTypeUnmarshalJSON(data) ==
    LET r == MetricTypeUnmarshalJSON(mt, data)
    IN /\ mt' = r.t
       /\ dec' = [kind |-> "MetricType", val |-> r.t, bytes |-> data, err |-> r.err]
       /\ UNCHANGED <<vt, wire, subVars, tagVars, procs>>

CallValueTypeUnmarshalJSON(data) ==
    LET r == ValueTypeUnmarshalJSON(vt, data)
    IN /\ vt' = r.t
       /\ dec' = [kind |-> "ValueType", val |-> r.t, bytes |-> data, err |-> r.err]
       /\ UNCHANGED <<mt, wire, subVars, tagVars, procs>>

NextEnum ==
    \/ \E n \in TypeValues : SetMetricType(n)
    \/ \E n \in TypeValues : SetValueType(n)
    \/ CallMetricTypeMarshalJSON
    \/ CallValueTypeMarshalJSON
    \/ \E data \in Literals \cup {wire.bytes} : CallMetricTypeUnmarshalJSON(data)
    \/ \E data \in Literals \cup {wire.bytes} : CallValueTypeUnmarshalJSON(data)

SpecEnum == InitEnum /\ [][NextEnum]_vars

----------------------------------------------------------------------------
(* Claims about the type enumerations *)

\* C8: for every MetricType in {Counter, Gauge, Trend, Rate} and every
\* ValueType in {Default, Time, Data}, MarshalJSON succeeds, and
\* UnmarshalJSON of the same type applied to its output succeeds and yields
\* the value that was encoded.
C8_RoundTrip ==
    LET valid == IF wire.kind = "MetricType" THEN 0..3 ELSE 0..2
    IN (wire.kind # "none" /\ wire.val \in valid) =>
          /\ wire.err = ""
          /\ (dec.kind = wire.kind /\ dec.bytes = wire.bytes) =>
                (dec.err = "" /\ dec.val = wire.val)

\* A Data value has been encoded and its encoding decoded into a ValueType
\* variable that held another value.
C8_Witness ==
    /\ wire.kind = "ValueType"
    /\ wire.val = 2
    /\ wire.bytes = "\"data\""
    /\ dec.kind = "ValueType"
    /\ dec.bytes = wire.bytes
    /\ dec.val = 2
    /\ vt = 2

\* C9: decoding a literal other than "counter", "gauge", "trend", "rate"
\* (quoted) into a MetricType fails with ErrInvalidMetricType, decoding a
\* literal other than "default", "time", "data" (quoted) into a ValueType
\* fails with ErrInvalidValueType, the two errors differ, and a valid
\* literal produces no error.
C9_InvalidLiteral ==
    LET mlits == {"\"counter\"", "\"gauge\"", "\"trend\"", "\"rate\""}
        vlits == {"\"default\"", "\"time\"", "\"data\""}
    IN /\ ErrInvalidMetricType # ErrInvalidValueType
       /\ dec.kind = "MetricType" =>
             IF dec.bytes \in mlits
             THEN dec.err = ""
             ELSE dec.err = "Invalid metric type"
       /\ dec.kind = "ValueType" =>
             IF dec.bytes \in vlits
             THEN dec.err = ""
             ELSE dec.err = "Invalid value type"

\* A MetricType literal has been decoded into a ValueType, and the decoding
\* failed with the value type's error.
C9_Witness ==
    /\ dec.kind = "ValueType"
    /\ dec.bytes = "\"rate\""
    /\ dec.err = "Invalid value type"

----------------------------------------------------------------------------
(* The specification of submetric parsing: NewSubmetric applied to any     *)
(* name of the model.                                                       *)

InitSub ==
    /\ name \in Names
    /\ sub = NoSubmetric
    /\ EnumIdle
    /\ TagsIdle
    /\ RaceIdle

CallNewSubmetric ==
    /\ ~sub.called
    /\ LET r == NewSubmetric(name)
       IN sub' = [called |-> TRUE, parentName |-> r.parentName, sm |-> r.sm]
    /\ UNCHANGED <<name, enumVars, tagVars, procs>>

NextSub == CallNewSubmetric

SpecSub == InitSub /\ [][NextSub]_vars

----------------------------------------------------------------------------
(* Claims about submetric parsing *)

\* C6 as the specification states it: for every input to NewSubmetric that
\* contains no "{", the returned parent name is the whole input, the
\* submetric carries no filter tags and its Name is the input.
C6_Original ==
    (sub.called /\ \A i \in 1..Len(name) : name[i] # "{") =>
        /\ sub.parentName = name
        /\ sub.sm.Tags.nil
        /\ sub.sm.Name = name

\* C6, amended: for every input to NewSubmetric that contains no "{", the
\* returned parent name is the input with one trailing "}" removed if it
\* ends with one (the whole input otherwise), the submetric carries no
\* filter tags and its Name is the input.
C6_NoFilter ==
    (sub.called /\ \A i \in 1..Len(name) : name[i] # "{") =>
        /\ sub.parentName =
              IF Len(name) > 0 /\ name[Len(name)] = "}"
              THEN [i \in 1..(Len(name) - 1) |-> name[i]]
              ELSE name
        /\ sub.sm.Tags.nil
        /\ sub.sm.Name = name

\* A name without "{" that ends with two "}" has been parsed.
C6_Witness ==
    /\ sub.called
    /\ name = <<"a", "}", "}">>
    /\ sub.parentName = <<"a", "}">>
    /\ sub.sm.Tags.nil

\* C7 as the specification states it: after NewSubmetric on a name with a
\* filter clause, no key and no value of the resulting tag set begins or
\* ends with a quoting character or with whitespace.
C7_Original ==
    LET clean(s) ==
            \/ s = <<>>
            \/ /\ s[1] \notin {"\"", "'", " ", "\t", "\n", "\r"}
               /\ s[Len(s)] \notin {"\"", "'", " ", "\t", "\n", "\r"}
    IN (sub.called /\ ~sub.sm.Tags.nil) =>
          \A k \in DOMAIN sub.sm.Tags.tags : clean(k) /\ clean(sub.sm.Tags.tags[k])

----------------------------------------------------------------------------
(* The specification of the tag sets: a caller that builds maps, writes     *)
(* them and builds tag sets from them, with NewSampleTags and with          *)
(* IntoSampleTags. IsEqual is evaluated on the tag sets of every state.     *)

\* No map yet, and either no tag set or the one IntoSampleTags makes of a
\* nil map variable.
InitTags ==
    /\ heap = <<>>
    /\ owned = {}
    /\ objs \in {<<>>, <<IntoSampleTags(Nil)>>}
    /\ origin = <<>>
    /\ last = NoCallYet
    /\ panicked = FALSE
    /\ EnumIdle
    /\ SubIdle
    /\ RaceIdle

Pointers == 0..Len(objs)

\* m := map[string]string{}
MakeMap ==
    /\ ~panicked
    /\ Len(heap) < MaxMaps
    /\ heap' = Append(heap, EmptyMap)
    /\ owned' = owned \cup {Len(heap) + 1}
    /\ UNCHANGED <<objs, origin, last, panicked, enumVars, subVars, procs>>

\* m[k] = v on a map the caller holds
CallerWrite(m, k, v) ==
    /\ ~panicked
    /\ m \in owned
    /\ heap' = [heap EXCEPT ![m] = MapSet(heap[m], k, v)]
    /\ UNCHANGED <<owned, objs, origin, last, panicked, enumVars, subVars, procs>>

\* delete(m, k) on a map the caller holds
CallerDelete(m, k) ==
    /\ ~panicked
    /\ m \in owned
    /\ heap' = [heap EXCEPT ![m] = MapDelete(heap[m], k)]
    /\ UNCHANGED <<owned, objs, origin, last, panicked, enumVars, subVars, procs>>

\* st := NewSampleTags(data), data a map of the caller or a nil map; origin
\* is left to Untracked or Tracked
CallNewSampleTags(data) ==
    /\ ~panicked
    /\ data \in owned \cup {Nil}
    /\ Len(heap) < MaxMaps
    /\ Len(objs) < MaxObjs
    /\ LET r == NewSampleTags(heap, data)
       IN /\ heap' = r.heap
          /\ objs' = Append(objs, r.st)
    /\ UNCHANGED <<owned, last, panicked, enumVars, subVars, procs>>

\* st := IntoSampleTags(&data): the caller's variable is nil afterwards
CallIntoSampleTags(data) ==
    /\ ~panicked
    /\ data \in owned \cup {Nil}
    /\ Len(objs) < MaxObjs
    /\ objs' = Append(objs, IntoSampleTags(data))
    /\ owned' = owned \ {data}
    /\ UNCHANGED <<heap, origin, last, panicked, enumVars, subVars, procs>>

\* m := st.CloneTags(): the caller holds the result
CallCloneTags(st) ==
    /\ ~panicked
    /\ st \in Pointers
    /\ Len(heap) < MaxMaps
    /\ heap' = CloneTags(heap, objs, st)
    /\ owned' = owned \cup {Len(heap')}
    /\ last' = [NoCallYet EXCEPT !.op = "CloneTags", !.st = st, !.m = Len(heap')]
    /\ UNCHANGED <<objs, origin, panicked, enumVars, subVars, procs>>

\* st.MarshalJSON(); a nil receiver returns null
CallMarshalJSON(st) ==
    /\ ~panicked
    /\ st \in Pointers
    /\ IF st = Nil
       THEN /\ last' = [NoCallYet EXCEPT !.op = "MarshalJSON",
                                         !.ret = Slice(<<"n", "u", "l", "l">>, 4)]
            /\ objs' = objs
       ELSE LET r == MarshalJSON(heap, objs[st])
            IN /\ objs' = [objs EXCEPT ![st] = r.st]
               /\ last' = [NoCallYet EXCEPT !.op = "MarshalJSON", !.st = st, !.ret = r.ret]
    /\ UNCHANGED <<heap, owned, origin, panicked, enumVars, subVars, procs>>

\* st.UnmarshalJSON(data); a nil receiver panics on *st = SampleTags{}
CallUnmarshalJSON(st, data) ==
    /\ ~panicked
    /\ st \in Pointers
    /\ IF st = Nil
       THEN /\ panicked' = TRUE
            /\ UNCHANGED <<heap, objs, last>>
       ELSE LET r == JsonUnmarshal(heap, objs[st].tags, data)
            IN /\ Len(r.heap) <= MaxMaps
               /\ heap' = r.heap
               /\ objs' = [objs EXCEPT ![st].tags = r.m]
               /\ last' = [NoCallYet EXCEPT
                              !.op = "UnmarshalJSON", !.st = st, !.data = data,
                              !.err = r.err,
                              !.populated = (DOMAIN MapOf(heap, objs[st].tags) # {})]
               /\ panicked' = panicked
    /\ UNCHANGED <<owned, origin, enumVars, subVars, procs>>

\* The call is not recorded in origin.
Untracked == UNCHANGED origin

\* The call NewSampleTags(data) is recorded in origin.
Tracked(data) ==
    origin' = Append(origin, [src |-> data, init |-> MapOf(heap, data)])

Next ==
    \/ MakeMap
    \/ \E m \in owned, k \in Keys, v \in Vals : CallerWrite(m, k, v)
    \/ \E m \in owned, k \in Keys : CallerDelete(m, k)
    \/ \E data \in owned \cup {Nil} : CallNewSampleTags(data) /\ Untracked
    \/ \E data \in owned : CallIntoSampleTags(data)

Init == InitTags

Spec == Init /\ [][Next]_vars

----------------------------------------------------------------------------
(* Claims about the tag sets *)

\* The contents of the tag set p points to, as a set of key/value pairs.
PairsOf(p) ==
    LET c == MapOf(heap, objs[p].tags) IN {<<k, c[k]>> : k \in DOMAIN c}

\* C2 as the specification states it: IsEqual between two unset tag sets is
\* true, and IsEqual between an unset tag set and a non-unset one, in either
\* position, is true exactly when the non-unset tag set is empty.
C2_Original ==
    /\ IsEqual(heap, objs, Nil, Nil)
    /\ \A q \in 1..Len(objs) :
          /\ IsEqual(heap, objs, Nil, q) = (PairsOf(q) = {})
          /\ IsEqual(heap, objs, q, Nil) = (PairsOf(q) = {})

\* C2, amended: IsEqual between two unset tag sets is true, and IsEqual
\* between an unset tag set and a non-unset one, in either position, is
\* false, also when the non-unset tag set is empty.
C2_NilEqual ==
    /\ IsEqual(heap, objs, Nil, Nil)
    /\ \A q \in 1..Len(objs) :
          /\ ~IsEqual(heap, objs, Nil, q)
          /\ ~IsEqual(heap, objs, q, Nil)

\* There are an empty and a non-empty tag set, and the unset tag set is
\* equal to neither.
C2_Witness ==
    \E q, r \in 1..Len(objs) :
        /\ PairsOf(q) = {}
        /\ PairsOf(r) # {}
        /\ ~IsEqual(heap, objs, Nil, q)
        /\ ~IsEqual(heap, objs, r, Nil)

\* C3: IsEqual is reflexive and symmetric over all tag sets, the unset one
\* included, and for two distinct non-unset tag sets it is true exactly when
\* they hold the same set of key/value pairs.
C3_Equality ==
    \A p, q \in Pointers :
        /\ IsEqual(heap, objs, p, p)
        /\ IsEqual(heap, objs, p, q) = IsEqual(heap, objs, q, p)
        /\ (p # Nil /\ q # Nil /\ p # q) =>
              (IsEqual(heap, objs, p, q) = (PairsOf(p) = PairsOf(q)))

\* Two tag sets built apart, each with a map of its own, hold the same two
\* tags and are equal.
C3_Witness ==
    \E p, q \in 1..Len(objs) :
        /\ p # q
        /\ objs[p].tags # objs[q].tags
        /\ Cardinality(PairsOf(p)) = 2
        /\ PairsOf(p) = PairsOf(q)
        /\ IsEqual(heap, objs, p, q)
        /\ IsEqual(heap, objs, q, p)

----------------------------------------------------------------------------
(* The specification of a tag set's immutability: a caller that holds a     *)
(* map, builds tag sets from it with NewSampleTags, takes maps from them    *)
(* with CloneTags and writes the maps it holds. Every tag set is recorded   *)
(* in origin with the map it was built from and what that map held.         *)

\* The caller holds one empty map, data := map[string]string{}.
InitImm ==
    /\ heap = <<EmptyMap>>
    /\ owned = {1}
    /\ objs = <<>>
    /\ origin = <<>>
    /\ last = NoCallYet
    /\ panicked = FALSE
    /\ EnumIdle
    /\ SubIdle
    /\ RaceIdle

NextImm ==
    \/ \E m \in owned, k \in Keys, v \in Vals : CallerWrite(m, k, v)
    \/ \E m \in owned, k \in Keys : CallerDelete(m, k)
    \/ \E data \in owned \cup {Nil} : CallNewSampleTags(data) /\ Tracked(data)
    \/ \E st \in Pointers : CallCloneTags(st)

SpecImm == InitImm /\ [][NextImm]_vars

\* C1: the contents of a tag set built by NewSampleTags(data) never change:
\* whatever the caller wrote to or deleted from data and the maps CloneTags
\* returned since, Get(k) returns for every key k the (value, found) pair it
\* returned right after construction.
C1_Immutable ==
    \A p \in 1..Len(origin) :
        \A k \in Keys :
            Get(heap, objs, p, k) =
                IF k \in DOMAIN origin[p].init
                THEN [val |-> origin[p].init[k], ok |-> TRUE]
                ELSE [val |-> <<>>, ok |-> FALSE]

\* A tag set was built by NewSampleTags from a map that held a tag; since
\* then the caller has changed that map, and a map CloneTags returned for
\* the tag set, so that neither holds what the tag set holds.
C1_Witness ==
    \E p \in 1..Len(origin) :
        /\ origin[p].init # EmptyMap
        /\ origin[p].src \in owned
        /\ heap[origin[p].src] # origin[p].init
        /\ last.op = "CloneTags"
        /\ last.st = p
        /\ last.m \in owned
        /\ heap[last.m] # origin[p].init

----------------------------------------------------------------------------
(* The specification of the tag sets' JSON codec: tag sets built from one   *)
(* map of the caller, or zero structs, encoded and decoded in any order.    *)

\* One tag set, either a zero struct or NewSampleTags(data) for any map data.
InitJson ==
    /\ \E c \in AllMaps :
          \/ /\ heap = <<>>
             /\ objs = <<[tags |-> Nil, json |-> NilSlice]>>
          \/ /\ heap = NewSampleTags(<<c>>, 1).heap
             /\ objs = <<NewSampleTags(<<c>>, 1).st>>
    /\ owned = {}
    /\ origin = <<>>
    /\ last = NoCallYet
    /\ panicked = FALSE
    /\ EnumIdle
    /\ SubIdle
    /\ RaceIdle

NextJson ==
    \/ \E st \in Pointers : CallMarshalJSON(st)
    \/ \E st \in Pointers, data \in JsonInputs : CallUnmarshalJSON(st, data)

SpecJson == InitJson /\ [][NextJson]_vars

----------------------------------------------------------------------------
(* Claims about the tag sets' JSON codec *)

\* C4 as the specification states it: after UnmarshalJSON has decoded a
\* JSON object into a tag set that held entries, the tag set holds exactly
\* the key/value pairs of that object.
C4_Original ==
    ( /\ last.op = "UnmarshalJSON"
      /\ last.err = ""
      /\ last.populated
      /\ ~JsonScan(last.data).null )
    => MapOf(heap, objs[last.st].tags) = StorePairs(EmptyMap, JsonScan(last.data).pairs, 1)

\* C10 as stated: MarshalJSON on a non-unset tag set returns the JSON
\* encoding of the mapping the tag set holds at that moment.
C10_Original ==
    (last.op = "MarshalJSON" /\ last.st # Nil) =>
        Bytes(last.ret) = JsonMarshal(heap, objs[last.st].tags)

----------------------------------------------------------------------------
(* The specification of concurrent MarshalJSON calls: goroutines that call  *)
(* MarshalJSON on one shared tag set with no synchronisation.  st.json is a *)
(* slice, several machine words wide, and Go loads and stores it one word   *)
(* at a time: a load that races with a store can take the pointer of one    *)
(* slice and the length of another.  The pointer and the length are read    *)
(* and written in separate steps, in either order; the capacity is not,     *)
(* since no caller's bytes depend on it.                                    *)

\* The shared tag set.
Shared == 1

InitRace ==
    /\ \E c \in AllMaps :
          /\ heap = NewSampleTags(<<c>>, 1).heap
          /\ objs = <<NewSampleTags(<<c>>, 1).st>>
    /\ owned = {}
    /\ origin = <<>>
    /\ last = NoCallYet
    /\ panicked = FALSE
    /\ RaceIdle
    /\ EnumIdle
    /\ SubIdle

raceRest == <<heap, owned, origin, last, panicked, enumVars, subVars>>

\* Goroutine g calls st.MarshalJSON(); st is not nil (line 205).  cached
\* records whether the cache held the whole encoding when the call began.
Call(g) ==
    /\ procs[g].pc = "idle"
    /\ procs[g].calls < MaxCalls
    /\ procs' = [procs EXCEPT ![g] =
                    [IdleProc EXCEPT !.pc = "L208", !.calls = procs[g].calls,
                                     !.returned = procs[g].returned,
                                     !.ret = procs[g].ret,
                                     !.cached = objs[Shared].json =
                                         LET e == JsonMarshal(heap, objs[Shared].tags)
                                         IN Slice(e, Len(e))]]
    /\ UNCHANGED <<objs, raceRest>>

\* Line 208, if st.json != nil: the pointer word is compared with nil.
L208(g) ==
    /\ procs[g].pc = "L208"
    /\ procs' = [procs EXCEPT ![g].pc = IF objs[Shared].json.nil THEN "L211" ELSE "L209"]
    /\ UNCHANGED <<objs, raceRest>>

\* Line 209, return st.json: the load of the pointer word.
L209LoadPtr(g) ==
    /\ procs[g].pc = "L209"
    /\ ~procs[g].gotPtr
    /\ procs' = [procs EXCEPT ![g].gotPtr = TRUE,
                              ![g].ptr = [objs[Shared].json EXCEPT !.len = 0]]
    /\ UNCHANGED <<objs, raceRest>>

\* Line 209, return st.json: the load of the length word.
L209LoadLen(g) ==
    /\ procs[g].pc = "L209"
    /\ ~procs[g].gotLen
    /\ procs' = [procs EXCEPT ![g].gotLen = TRUE, ![g].len = objs[Shared].json.len]
    /\ UNCHANGED <<objs, raceRest>>

\* Line 209, return st.json: the return of the words loaded.
L209Return(g) ==
    /\ procs[g].pc = "L209"
    /\ procs[g].gotPtr
    /\ procs[g].gotLen
    /\ procs' = [procs EXCEPT ![g].pc = "idle",
                              ![g].returned = TRUE,
                              ![g].ret = [procs[g].ptr EXCEPT !.len = procs[g].len],
                              ![g].calls = procs[g].calls + 1]
    /\ UNCHANGED <<objs, raceRest>>

\* Lines 211-214, res, err := json.Marshal(st.tags); err is nil for a
\* map[string]string.
L211(g) ==
    /\ procs[g].pc = "L211"
    /\ LET res == JsonMarshal(heap, objs[Shared].tags)
       IN procs' = [procs EXCEPT ![g].pc = "L215", ![g].res = Slice(res, Len(res))]
    /\ UNCHANGED <<objs, raceRest>>

\* Line 215, st.json = res: the store of the pointer word.
L215StorePtr(g) ==
    /\ procs[g].pc = "L215"
    /\ ~procs[g].putPtr
    /\ objs' = [objs EXCEPT ![Shared].json.nil = FALSE,
                            ![Shared].json.buf = procs[g].res.buf]
    /\ procs' = [procs EXCEPT ![g].putPtr = TRUE]
    /\ UNCHANGED raceRest

\* Line 215, st.json = res: the store of the length word.
L215StoreLen(g) ==
    /\ procs[g].pc = "L215"
    /\ ~procs[g].putLen
    /\ objs' = [objs EXCEPT ![Shared].json.len = procs[g].res.len]
    /\ procs' = [procs EXCEPT ![g].putLen = TRUE]
    /\ UNCHANGED raceRest

\* Line 216, return res, nil.
L216(g) ==
    /\ procs[g].pc = "L215"
    /\ procs[g].putPtr
    /\ procs[g].putLen
    /\ procs' = [procs EXCEPT ![g].pc = "idle",
                              ![g].returned = TRUE,
                              ![g].ret = procs[g].res,
                              ![g].calls = procs[g].calls + 1]
    /\ UNCHANGED <<objs, raceRest>>

NextRace ==
    \E g \in Procs :
        \/ Call(g)
        \/ L208(g)
        \/ L209LoadPtr(g)
        \/ L209LoadLen(g)
        \/ L209Return(g)
        \/ L211(g)
        \/ L215StorePtr(g)
        \/ L215StoreLen(g)
        \/ L216(g)

SpecRace == InitRace /\ [][NextRace]_vars

----------------------------------------------------------------------------
(* Claims about concurrent MarshalJSON calls *)

\* C5 as the specification states it: under every interleaving of
\* concurrent MarshalJSON calls on one shared non-unset tag set, each call
\* returns the complete JSON encoding of the tag set's mapping, and a call
\* that starts once the cache is set does not compute the encoding again.
C5_Original ==
    \A g \in Procs :
        /\ procs[g].returned =>
              Bytes(procs[g].ret) = JsonMarshal(heap, objs[Shared].tags)
        /\ procs[g].cached => procs[g].pc \notin {"L211", "L215"}

====
